---- MODULE Spec2Model ----
(***************************************************************************)
(* A model of the usePagination hook (src/src/hooks/usePagination.ts) as   *)
(* React runs it: the hook body is one render, the functions it returns    *)
(* close over that render's values, and setCurrentPage queues an update    *)
(* that the next render processes.  A caller may make several calls from   *)
(* one render (one event handler) before React renders again, and may      *)
(* render the hook with other props at any time.                           *)
(*                                                                         *)
(* Numbers are JavaScript numbers: a record [k, v] that is an integer      *)
(* (k = "int", value v), NaN, Infinity ("inf") or -Infinity ("ninf").      *)
(* The props totalItems, itemsPerPage and initialPage are integers.        *)
(* Negative zero is not distinguished from zero.                           *)
(*                                                                         *)
(* The second part models the useDebounce hook (src/hooks/useDebounce.ts,  *)
(* here src/unnamed/part_003) with the host's timer queue.  Time is        *)
(* counted in ticks; a timer may run its callback at any moment from its   *)
(* expiry on.  React runs a render, the cleanup of the previous effect and *)
(* the new effect as one step, and a timer callback with the render its    *)
(* setDebouncedValue causes as one step.  App shows one demo at a time, so *)
(* each specification runs one hook and leaves the other's variables       *)
(* alone.                                                                  *)
(*                                                                         *)
(* The third part models DebounceSearchDemo (src/unnamed/part_002): the    *)
(* search term fed to useDebounce with a delay of 500 ms, the effect on    *)
(* the debounced term with its 0 ms timers, and the 300 ms timer of the    *)
(* simulated network.  One tick is 100 ms there.                           *)
(***************************************************************************)
EXTENDS Integers, Sequences, FiniteSets, TLC

\* ------------------------------------------------------------- bounds
\* totalItems ranges over 0..MaxItems (and the demo's 47).
MaxItems == 4
\* itemsPerPage ranges over 1..MaxPerPage (and the demo's 10).
MaxPerPage == 3
\* initialPage and the argument of setPage range over -1..MaxPageArg.
MaxPageArg == 3
\* At most MaxPending calls are made from one render before React re-renders.
MaxPending == 2
\* nextPage is not called once the rendered page has reached MaxPage; only an
\* infinite totalPages (itemsPerPage = 0) lets the page grow that far.
MaxPage == 7
\* Out-of-range props reach down to -OutOfRange.
OutOfRange == 2

\* PaginationDemo's data: 47 items, 10 per page.
DemoItems == 47
DemoPerPage == 10

ItemCounts == 0..MaxItems
PageSizes == 1..MaxPerPage
PageArgs == (-1)..MaxPageArg
\* The props a caller that keeps the contract passes.
ValidProps == (ItemCounts \X PageSizes) \cup {<<DemoItems, DemoPerPage>>}
\* Any integer props, the contract violations included.
AnyProps == ValidProps \cup (((-OutOfRange)..MaxItems) \X ((-OutOfRange)..MaxPerPage))

\* The longest delay passed to useDebounce, in ticks.
MaxDelay == 2
\* The number of setTimeout calls one useDebounce instance makes.
MaxTimers == 4

\* ------------------------------------------------- JavaScript numbers
Num(n) == [k |-> "int", v |-> n]
NaN == [k |-> "nan", v |-> 0]
PosInf == [k |-> "inf", v |-> 0]
NegInf == [k |-> "ninf", v |-> 0]

IsInt(x) == x.k = "int"

\* x < y on JavaScript numbers: false when either is NaN.
JsLt(x, y) ==
    IF x.k = "nan" \/ y.k = "nan" THEN FALSE
    ELSE IF x.k = "inf" \/ y.k = "ninf" THEN FALSE
    ELSE IF x.k = "ninf" \/ y.k = "inf" THEN TRUE
    ELSE x.v < y.v

\* x > y on JavaScript numbers.
JsGt(x, y) == JsLt(y, x)

\* Math.max(x, y): NaN when either is NaN.
JsMax(x, y) ==
    IF x.k = "nan" \/ y.k = "nan" THEN NaN
    ELSE IF JsLt(x, y) THEN y ELSE x

\* Math.min(x, y): NaN when either is NaN.
JsMin(x, y) ==
    IF x.k = "nan" \/ y.k = "nan" THEN NaN
    ELSE IF JsLt(y, x) THEN y ELSE x

\* x + y.
JsAdd(x, y) ==
    IF x.k = "nan" \/ y.k = "nan" THEN NaN
    ELSE IF IsInt(x) /\ IsInt(y) THEN Num(x.v + y.v)
    ELSE IF IsInt(x) THEN y
    ELSE IF IsInt(y) THEN x
    ELSE IF x.k = y.k THEN x ELSE NaN

\* -x.
JsNeg(x) ==
    IF x.k = "nan" THEN NaN
    ELSE IF x.k = "inf" THEN NegInf
    ELSE IF x.k = "ninf" THEN PosInf
    ELSE Num(0 - x.v)

\* x - y.
JsSub(x, y) == JsAdd(x, JsNeg(y))

\* The sign of a JavaScript number that is not NaN: -1, 0 or 1.
JsSign(x) ==
    IF x.k = "inf" THEN 1
    ELSE IF x.k = "ninf" THEN -1
    ELSE IF x.v > 0 THEN 1 ELSE IF x.v < 0 THEN -1 ELSE 0

\* x * y: Infinity * 0 is NaN.
JsMul(x, y) ==
    IF x.k = "nan" \/ y.k = "nan" THEN NaN
    ELSE IF IsInt(x) /\ IsInt(y) THEN Num(x.v * y.v)
    ELSE IF JsSign(x) * JsSign(y) = 0 THEN NaN
    ELSE IF JsSign(x) * JsSign(y) > 0 THEN PosInf ELSE NegInf

\* Math.ceil(a / b) for integers a and b: a / 0 is Infinity, -Infinity or
\* (0 / 0) NaN, and Math.ceil leaves these as they are.
CeilOfQuotient(a, b) ==
    IF b = 0 THEN (IF a > 0 THEN PosInf ELSE IF a < 0 THEN NegInf ELSE NaN)
    ELSE LET n == IF b < 0 THEN 0 - a ELSE a
             d == IF b < 0 THEN 0 - b ELSE b
         IN  Num(IF n % d = 0 THEN n \div d ELSE (n \div d) + 1)

\* -------------------------------------------------- useDebounce state
VARIABLES
    value,               \* argument of the latest invocation
    delay,               \* argument of the latest invocation
    debouncedValue,      \* useState value
    timers,              \* the host's pending timers: [id, value, remaining]
    handler,             \* the timer id the live effect's cleanup holds, or 0
    nextId,              \* the id setTimeout returns next
    mounted,             \* the owning component is mounted
    elapsed,             \* ticks since the effect last ran
    cancelled,           \* ids of the timers clearTimeout removed
    fired,               \* ids of the timers whose callback ran
    burst,               \* the values of the current run of changes, each
                         \* made before the timer of the one before expired
    settledLog,          \* the values assigned to debouncedValue since the
                         \* current run of changes began
    lastEvent            \* the latest step: mount, invoke, fire, tick, unmount

dvars == <<value, delay, debouncedValue, timers, handler, nextId, mounted,
           elapsed, cancelled, fired, burst, settledLog, lastEvent>>

\* The hook is not in use: nothing mounted, no timer.
DebounceUnused ==
    /\ value = ""
    /\ delay = 0
    /\ debouncedValue = ""
    /\ timers = {}
    /\ handler = 0
    /\ nextId = 1
    /\ mounted = FALSE
    /\ elapsed = 0
    /\ cancelled = {}
    /\ fired = {}
    /\ burst = <<>>
    /\ settledLog = <<>>
    /\ lastEvent = "none"

\* ------------------------------------------- DebounceSearchDemo state
VARIABLES
    apiCallCount,        \* useState value
    searchResults,       \* useState value
    isSearching,         \* useState value
    searchTimers,        \* the demo's pending timers:
                         \* [id, kind, term, cause, remaining]
    searchHandler,       \* the timer id the demo effect's cleanup holds
    searchNextId,        \* the id of the demo's next timer
    apiCalls,            \* the debounce timer ids whose firing led to a
                         \* counted API call, one entry per call
    sinceReset,          \* handleReset ran and the user has not typed since
    effectCause          \* the debounce timer whose firing last ran the
                         \* demo effect, 0 for the first render

svars == <<apiCallCount, searchResults, isSearching, searchTimers,
           searchHandler, searchNextId, apiCalls, sinceReset, effectCause>>

\* The demo is not in use.
SearchUnused ==
    /\ apiCallCount = 0
    /\ searchResults = <<>>
    /\ isSearching = FALSE
    /\ searchTimers = {}
    /\ searchHandler = 0
    /\ searchNextId = 1
    /\ apiCalls = <<>>
    /\ sinceReset = FALSE
    /\ effectCause = 0

\* ----------------------------------------------------- usePagination
VARIABLES
    totalItems,          \* prop passed at the latest render
    itemsPerPage,        \* prop passed at the latest render
    currentPage,         \* useState value as of the latest render
    pending,             \* updates queued by setCurrentPage since that render
    totalPages,          \* useMemo value, latest render
    startIndex,          \* useMemo value, latest render
    endIndex,            \* useMemo value, latest render
    itemsOnCurrentPage,  \* useMemo value, latest render
    canPrevPage,         \* flag computed by the latest render
    canNextPage,         \* flag computed by the latest render
    lastCall             \* the caller's latest act on the hook since that
                         \* render: a call, the mount (with initialPage),
                         \* a change of props, or none ("render")

vars == <<totalItems, itemsPerPage, currentPage, pending,
          totalPages, startIndex, endIndex, itemsOnCurrentPage,
          canPrevPage, canNextPage, lastCall>>

\* What the latest render returned, and the props it was given.
rendered == <<totalItems, itemsPerPage, currentPage,
              totalPages, startIndex, endIndex, itemsOnCurrentPage,
              canPrevPage, canNextPage>>

\* useState's initial value: Math.max(1, initialPage).
InitialCurrentPage(ip) == JsMax(Num(1), Num(ip))

\* Mutant of TotalPagesOf: Math.floor in place of Math.ceil.
TotalPagesOfFloor(ti, ipp) == JsMax(Num(1), Num(ti \div ipp))

\* Math.max(1, Math.ceil(totalItems / itemsPerPage)).
TotalPagesOf(ti, ipp) == JsMax(Num(1), CeilOfQuotient(ti, ipp))

\* Mutant of StartIndexOf: the page taken as 0-based.
StartIndexOfZeroBased(cp, ipp) == JsMul(cp, Num(ipp))

\* (currentPage - 1) * itemsPerPage.
StartIndexOf(cp, ipp) == JsMul(JsSub(cp, Num(1)), Num(ipp))

\* Mutant of EndIndexOf: no cap at totalItems.
EndIndexOfUncapped(si, ipp, ti) == JsAdd(si, Num(ipp))

\* Math.min(startIndex + itemsPerPage, totalItems).
EndIndexOf(si, ipp, ti) == JsMin(JsAdd(si, Num(ipp)), Num(ti))

\* endIndex - startIndex.
ItemsOnPageOf(ei, si) == JsSub(ei, si)

\* currentPage > 1.
CanPrevPageOf(cp) == JsGt(cp, Num(1))

\* currentPage < totalPages.
CanNextPageOf(cp, tp) == JsLt(cp, tp)

UseMemoFirstDepOnly(cached, depsNow, depsBefore, fresh) ==
    IF depsNow[1] = depsBefore[1] THEN cached ELSE fresh

\* useMemo: the cached value is kept when no dependency changed (Object.is),
\* and the factory runs again otherwise.
UseMemo(cached, depsNow, depsBefore, fresh) ==
    IF depsNow = depsBefore THEN cached ELSE fresh

\* Mutant of SetPageUpdate: the lower clamp Math.max(1, ...) left out.
SetPageUpdateNoFloor(page, tp) ==
    [upd |-> "value", val |-> JsMin(Num(page), tp)]

\* The update setPage queues: setCurrentPage(Math.max(1, Math.min(page, totalPages))).
SetPageUpdate(page, tp) ==
    [upd |-> "value", val |-> JsMax(Num(1), JsMin(Num(page), tp))]

\* The update nextPage queues: setCurrentPage(prev => prev + 1).
NextPageUpdate == [upd |-> "inc", val |-> Num(1)]

\* The update prevPage queues: setCurrentPage(prev => prev - 1).
PrevPageUpdate == [upd |-> "dec", val |-> Num(1)]

\* One queued update applied to the state prev.
ApplyUpdate(prev, u) ==
    IF u.upd = "value" THEN u.val
    ELSE IF u.upd = "inc" THEN JsAdd(prev, u.val)
    ELSE JsSub(prev, u.val)

\* React processes the queued updates in order when it renders next.
RECURSIVE Reduce(_, _)
Reduce(prev, queue) ==
    IF queue = <<>> THEN prev
    ELSE Reduce(ApplyUpdate(prev, Head(queue)), Tail(queue))

\* Mutant of NextCurrentPage: the page re-clamped to the new totalPages.
NextCurrentPageReclamped(ti, ipp) ==
    JsMax(Num(1), JsMin(Reduce(currentPage, pending), JsMax(Num(1), CeilOfQuotient(ti, ipp))))

\* The value useState returns on the next render of the hook.
NextCurrentPage(ti, ipp) == Reduce(currentPage, pending)

\* The first render: lines 49-165 with fresh state and empty memo cells.
Mount(ti, ipp, ip) ==
    LET cp == InitialCurrentPage(ip)
        tp == TotalPagesOf(ti, ipp)
        si == StartIndexOf(cp, ipp)
        ei == EndIndexOf(si, ipp, ti)
    IN  /\ totalItems = ti
        /\ itemsPerPage = ipp
        /\ currentPage = cp
        /\ pending = <<>>
        /\ totalPages = tp
        /\ startIndex = si
        /\ endIndex = ei
        /\ itemsOnCurrentPage = ItemsOnPageOf(ei, si)
        /\ canPrevPage = CanPrevPageOf(cp)
        /\ canNextPage = CanNextPageOf(cp, tp)
        /\ lastCall = [op |-> "mount", arg |-> ip]

\* A later render of the hook with props ti and ipp: lines 49-165.
Render(ti, ipp) ==
    LET cp == NextCurrentPage(ti, ipp)
        tp == UseMemo(totalPages, <<ti, ipp>>, <<totalItems, itemsPerPage>>,
                      TotalPagesOf(ti, ipp))
        si == UseMemo(startIndex, <<cp, ipp>>, <<currentPage, itemsPerPage>>,
                      StartIndexOf(cp, ipp))
        ei == UseMemo(endIndex, <<si, ipp, ti>>,
                      <<startIndex, itemsPerPage, totalItems>>,
                      EndIndexOf(si, ipp, ti))
        n  == UseMemo(itemsOnCurrentPage, <<ei, si>>, <<endIndex, startIndex>>,
                      ItemsOnPageOf(ei, si))
    IN  /\ totalItems' = ti
        /\ itemsPerPage' = ipp
        /\ currentPage' = cp
        /\ pending' = <<>>
        /\ totalPages' = tp
        /\ startIndex' = si
        /\ endIndex' = ei
        /\ itemsOnCurrentPage' = n
        /\ canPrevPage' = CanPrevPageOf(cp)
        /\ canNextPage' = CanNextPageOf(cp, tp)
        /\ UNCHANGED <<dvars, svars>>

\* setPage(page), called on the latest render's closure.
SetPage(page) ==
    /\ Len(pending) < MaxPending
    /\ pending' = Append(pending, SetPageUpdate(page, totalPages))
    /\ lastCall' = [op |-> "setPage", arg |-> page]
    /\ UNCHANGED rendered
    /\ UNCHANGED <<dvars, svars>>

\* The rendered page has grown to MaxPage: the caller stops calling nextPage.
PageCapReached == IsInt(currentPage) /\ currentPage.v >= MaxPage

\* Mutant of NextPage: the canNextPage check left out.
NextPageUnguarded ==
    /\ Len(pending) < MaxPending
    /\ ~PageCapReached
    /\ pending' = Append(pending, NextPageUpdate)
    /\ lastCall' = [op |-> "nextPage", arg |-> 0]
    /\ UNCHANGED rendered
    /\ UNCHANGED <<dvars, svars>>

\* nextPage(), called on the latest render's closure.
NextPage ==
    /\ Len(pending) < MaxPending
    /\ ~PageCapReached
    /\ pending' = IF canNextPage THEN Append(pending, NextPageUpdate) ELSE pending
    /\ lastCall' = [op |-> "nextPage", arg |-> 0]
    /\ UNCHANGED rendered
    /\ UNCHANGED <<dvars, svars>>

\* prevPage(), called on the latest render's closure.
PrevPage ==
    /\ Len(pending) < MaxPending
    /\ pending' = IF canPrevPage THEN Append(pending, PrevPageUpdate) ELSE pending
    /\ lastCall' = [op |-> "prevPage", arg |-> 0]
    /\ UNCHANGED rendered
    /\ UNCHANGED <<dvars, svars>>

\* React renders the hook again after state updates were queued.
Rerender ==
    /\ pending # <<>>
    /\ Render(totalItems, itemsPerPage)
    /\ lastCall' = [op |-> "render", arg |-> 0]

\* The caller renders the hook again with other props.
ChangeProps(ti, ipp) ==
    /\ <<ti, ipp>> # <<totalItems, itemsPerPage>>
    /\ Render(ti, ipp)
    /\ lastCall' = [op |-> "props", arg |-> 0]

Init ==
    /\ \E p \in ValidProps, ip \in PageArgs : Mount(p[1], p[2], ip)
    /\ DebounceUnused
    /\ SearchUnused

Next ==
    \/ \E page \in PageArgs : SetPage(page)
    \/ NextPage
    \/ PrevPage
    \/ Rerender
    \/ \E p \in ValidProps : ChangeProps(p[1], p[2])

Spec == Init /\ [][Next]_vars

\* The same hook under a caller that never changes totalItems or itemsPerPage.
NextSameProps ==
    \/ \E page \in PageArgs : SetPage(page)
    \/ NextPage
    \/ PrevPage
    \/ Rerender

SpecSameProps == Init /\ [][NextSameProps]_vars

\* The same hook under a caller that leaves initialPage at its default, 1.
InitDefaultPage ==
    /\ \E p \in ValidProps : Mount(p[1], p[2], 1)
    /\ DebounceUnused
    /\ SearchUnused

SpecDefaultPage == InitDefaultPage /\ [][Next]_vars

\* The same hook under a caller that passes any integers as props.
InitAnyInput ==
    /\ \E p \in AnyProps, ip \in PageArgs : Mount(p[1], p[2], ip)
    /\ DebounceUnused
    /\ SearchUnused

NextAnyInput ==
    \/ \E page \in PageArgs : SetPage(page)
    \/ NextPage
    \/ PrevPage
    \/ Rerender
    \/ \E p \in AnyProps : ChangeProps(p[1], p[2])

SpecAnyInput == InitAnyInput /\ [][NextAnyInput]_vars

\* ------------------------------------------------------- useDebounce
\* The values and the delays (in ticks) the caller passes.
Values == {"", "a", "ab"}
Delays == 0..MaxDelay

\* The pagination hook is not in use while the debounce demo is shown.
PaginationUnused == Mount(DemoItems, DemoPerPage, 1)

EffectDepsValueOnly(v, d) == v # value

EffectDepsAlways(v, d) == TRUE

EffectDepsDelayOnly(v, d) == d # delay

\* The effect's dependency list [value, delay], compared with the
\* dependencies of the latest invocation.
EffectDepsChanged(v, d) == <<v, d>> # <<value, delay>>

SetTimeoutSkipsZero(q, id, v, d) ==
    IF d = 0 THEN q ELSE q \cup {[id |-> id, value |-> v, remaining |-> d]}

SetTimeoutNoDelay(q, id, v, d) ==
    q \cup {[id |-> id, value |-> v, remaining |-> 0]}

\* setTimeout(callback, d): one more pending timer, whose callback carries
\* the value v of the render that made it.
SetTimeout(q, id, v, d) == q \cup {[id |-> id, value |-> v, remaining |-> d]}

ClearTimeoutNoOp(q, id) == q

\* clearTimeout(id): a pending timer with that id is removed, any other id
\* does nothing.
ClearTimeout(q, id) == {t \in q : t.id # id}

\* The ids of the pending timers a clearTimeout(id) call names.
ClearedIds(q, id) == {t.id : t \in {u \in q : u.id = id}}

CleanupOmitted(q) == q

\* The effect's cleanup: clearTimeout(handler).
Cleanup(q) == ClearTimeout(q, handler)

CallbackValueStale(v) == debouncedValue

\* The value the timer callback passes to setDebouncedValue: the value
\* argument of the render whose effect made the timer.
CallbackValue(v) == v

\* setDebouncedValue(v) from a timer callback; React drops a state update
\* of a component that is no longer mounted.
SetDebouncedValue(v) == IF mounted THEN v ELSE debouncedValue

\* The live timer has not expired yet.
WithinWindow == \E t \in timers : t.id = handler /\ t.remaining > 0

MountDebounceEmptyState(v, d) ==
    /\ value = v
    /\ delay = d
    /\ debouncedValue = ""
    /\ timers = {[id |-> 1, value |-> v, remaining |-> d]}
    /\ handler = 1
    /\ nextId = 2
    /\ mounted = TRUE
    /\ elapsed = 0
    /\ cancelled = {}
    /\ fired = {}
    /\ burst = <<v>>
    /\ settledLog = <<>>
    /\ lastEvent = "mount"

\* First render and its effect: the state starts as value and the first
\* timer is made.
MountDebounce(v, d) ==
    /\ value = v
    /\ delay = d
    /\ debouncedValue = v
    /\ timers = SetTimeout({}, 1, CallbackValue(v), d)
    /\ handler = 1
    /\ nextId = 2
    /\ mounted = TRUE
    /\ elapsed = 0
    /\ cancelled = {}
    /\ fired = {}
    /\ burst = <<v>>
    /\ settledLog = <<>>
    /\ lastEvent = "mount"

\* The caller renders again and invokes useDebounce(v, d).  When a
\* dependency changed, the previous effect's cleanup runs and then the
\* effect; the returned state is left as it is.
UseDebounce(v, d) ==
    /\ mounted
    /\ EffectDepsChanged(v, d) => nextId <= MaxTimers
    /\ value' = v
    /\ delay' = d
    /\ debouncedValue' = debouncedValue
    /\ IF EffectDepsChanged(v, d)
       THEN /\ timers' = SetTimeout(Cleanup(timers), nextId,
                                    CallbackValue(v), d)
            /\ handler' = nextId
            /\ nextId' = nextId + 1
            /\ cancelled' = cancelled \cup ClearedIds(timers, handler)
            /\ elapsed' = 0
            /\ burst' = IF WithinWindow THEN Append(burst, v) ELSE <<v>>
            /\ settledLog' = IF WithinWindow THEN settledLog ELSE <<>>
       ELSE UNCHANGED <<timers, handler, nextId, cancelled, elapsed,
                        burst, settledLog>>
    /\ lastEvent' = "invoke"
    /\ UNCHANGED <<fired, mounted>>

\* An expired timer runs its callback: setDebouncedValue(value), and the
\* render that follows has the same dependencies, so no effect runs.
Fire(t) ==
    /\ t \in timers
    /\ t.remaining = 0
    /\ timers' = timers \ {t}
    /\ debouncedValue' = SetDebouncedValue(t.value)
    /\ fired' = fired \cup {t.id}
    /\ settledLog' = IF mounted THEN Append(settledLog, t.value)
                                ELSE settledLog
    /\ lastEvent' = "fire"
    /\ UNCHANGED <<value, delay, handler, nextId, mounted, elapsed,
                   cancelled, burst>>

\* One tick passes for every timer that has not expired.
Tick ==
    /\ \E t \in timers : t.remaining > 0
    /\ timers' = {[t EXCEPT !.remaining =
                      IF t.remaining > 0 THEN t.remaining - 1 ELSE 0] :
                  t \in timers}
    /\ elapsed' = IF elapsed < MaxDelay THEN elapsed + 1 ELSE elapsed
    /\ lastEvent' = "tick"
    /\ UNCHANGED <<value, delay, debouncedValue, handler, nextId, mounted,
                   cancelled, fired, burst, settledLog>>

UnmountNoCleanup ==
    /\ mounted
    /\ mounted' = FALSE
    /\ handler' = 0
    /\ lastEvent' = "unmount"
    /\ UNCHANGED <<value, delay, debouncedValue, timers, nextId, elapsed,
                   cancelled, fired, burst, settledLog>>

\* The owning component unmounts: the effect's cleanup runs.
Unmount ==
    /\ mounted
    /\ mounted' = FALSE
    /\ timers' = Cleanup(timers)
    /\ cancelled' = cancelled \cup ClearedIds(timers, handler)
    /\ handler' = 0
    /\ lastEvent' = "unmount"
    /\ UNCHANGED <<value, delay, debouncedValue, nextId, elapsed, fired,
                   burst, settledLog>>

\* Nothing else on the page changes in a step of the hook alone.
HookAlone == UNCHANGED <<vars, svars>>

InitDebounce ==
    /\ \E v \in Values, d \in Delays : MountDebounce(v, d)
    /\ PaginationUnused
    /\ SearchUnused

NextDebounce ==
    \/ \E v \in Values, d \in Delays : UseDebounce(v, d) /\ HookAlone
    \/ \E t \in timers : Fire(t) /\ HookAlone
    \/ Tick /\ HookAlone
    \/ Unmount /\ HookAlone

SpecDebounce == InitDebounce /\ [][NextDebounce]_dvars

\* The host runs the callback of an expired timer sooner or later, and time
\* passes.
SpecDebounceFair ==
    /\ InitDebounce
    /\ [][NextDebounce]_dvars
    /\ WF_dvars(Tick /\ HookAlone)
    /\ WF_dvars(\E t \in timers : Fire(t) /\ HookAlone)


\* ------------------------------------------------ DebounceSearchDemo
\* useDebounce(searchTerm, 500), the 300 ms "network" timer and the five
\* mock results of a search.
DebounceMs == 500
NetworkMs == 300
NumResults == 5

RECURSIVE GCD(_, _)
GCD(a, b) == IF b = 0 THEN a ELSE GCD(b, a % b)

\* One tick of the demo is the longest time that divides both delays.
TickMs == GCD(DebounceMs, NetworkMs)
SearchDelay == DebounceMs \div TickMs
NetworkDelay == NetworkMs \div TickMs

\* mockResults for a term.
MockResults(term) == [n \in 1..NumResults |-> [n |-> n, term |-> term]]

\* The timer the demo effect makes for a render whose debouncedSearchTerm
\* is term: the search when the term is not empty, the clearing of the
\* results when it is; both with delay 0.  cause is the debounce timer whose
\* firing led to the render, 0 for the first render.
EffectTimer(id, term, cause) ==
    [id |-> id, kind |-> IF term # "" THEN "search" ELSE "clear",
     term |-> term, cause |-> cause, remaining |-> 0]

\* The timer a search makes for its results.
ResultsTimer(id, term, cause) ==
    [id |-> id, kind |-> "results", term |-> term, cause |-> cause,
     remaining |-> NetworkDelay]

\* The demo effect's cleanup: clearTimeout(timer).
SearchCleanup(q) == {t \in q : t.id # searchHandler}

SearchDepsAlways(term) == TRUE

\* The demo effect's dependency list [debouncedSearchTerm], compared with
\* the render before.
SearchDepsChanged(term) == term # debouncedValue

\* The first render of the demo and its effects.
MountDemo ==
    /\ MountDebounce("", SearchDelay)
    /\ apiCallCount = 0
    /\ searchResults = <<>>
    /\ isSearching = FALSE
    /\ searchTimers = {EffectTimer(1, "", 0)}
    /\ searchHandler = 1
    /\ searchNextId = 2
    /\ apiCalls = <<>>
    /\ sinceReset = FALSE
    /\ effectCause = 0

\* A keystroke: setSearchTerm(v) and the render it causes; the demo effect
\* depends on debouncedSearchTerm only and does not run.
HandleSearchChange(v) ==
    /\ v # value
    /\ UseDebounce(v, SearchDelay)
    /\ sinceReset' = FALSE
    /\ UNCHANGED <<apiCallCount, searchResults, isSearching, searchTimers,
                   searchHandler, searchNextId, apiCalls, effectCause>>
    /\ UNCHANGED vars

\* The Reset button: the four setters and the render they cause.
HandleReset ==
    /\ UseDebounce("", SearchDelay)
    /\ apiCallCount' = 0
    /\ searchResults' = <<>>
    /\ isSearching' = FALSE
    /\ sinceReset' = TRUE
    /\ UNCHANGED <<searchTimers, searchHandler, searchNextId, apiCalls,
                   effectCause>>
    /\ UNCHANGED vars

\* The debounce timer fires; when debouncedSearchTerm changed, the render
\* runs the demo effect's cleanup and then the effect.
DebounceTimerFires(t) ==
    /\ Fire(t)
    /\ IF SearchDepsChanged(debouncedValue')
       THEN /\ searchTimers' = SearchCleanup(searchTimers) \cup
                                 {EffectTimer(searchNextId, debouncedValue',
                                              t.id)}
            /\ searchHandler' = searchNextId
            /\ searchNextId' = searchNextId + 1
            /\ effectCause' = t.id
       ELSE UNCHANGED <<searchTimers, searchHandler, searchNextId,
                        effectCause>>
    /\ UNCHANGED <<apiCallCount, searchResults, isSearching, apiCalls,
                   sinceReset>>
    /\ UNCHANGED vars

\* One of the demo's timers runs its callback; React drops the state
\* updates of a component that is no longer mounted.
SearchTimerFires(t) ==
    /\ t \in searchTimers
    /\ t.remaining = 0
    /\ IF t.kind = "search"
       THEN /\ searchTimers' = (searchTimers \ {t}) \cup
                                 {ResultsTimer(searchNextId, t.term, t.cause)}
            /\ searchNextId' = searchNextId + 1
            /\ isSearching' = (mounted \/ isSearching)
            /\ apiCallCount' = IF mounted THEN apiCallCount + 1
                                          ELSE apiCallCount
            /\ apiCalls' = IF mounted THEN Append(apiCalls, t.cause)
                                      ELSE apiCalls
            /\ UNCHANGED searchResults
       ELSE /\ searchTimers' = searchTimers \ {t}
            /\ searchResults' =
                 IF ~mounted THEN searchResults
                 ELSE IF t.kind = "results" THEN MockResults(t.term)
                 ELSE <<>>
            /\ isSearching' = (~mounted /\ isSearching)
            /\ UNCHANGED <<searchNextId, apiCallCount, apiCalls>>
    /\ UNCHANGED <<searchHandler, sinceReset, effectCause>>
    /\ UNCHANGED dvars
    /\ UNCHANGED vars

\* One tick passes; an expired timer runs before more time passes.
DemoTick ==
    /\ timers \cup searchTimers # {}
    /\ \A t \in timers : t.remaining > 0
    /\ \A t \in searchTimers : t.remaining > 0
    /\ timers' = {[t EXCEPT !.remaining = t.remaining - 1] : t \in timers}
    /\ searchTimers' = {[t EXCEPT !.remaining = t.remaining - 1] :
                        t \in searchTimers}
    /\ elapsed' = IF elapsed < SearchDelay THEN elapsed + 1 ELSE elapsed
    /\ lastEvent' = "tick"
    /\ UNCHANGED <<value, delay, debouncedValue, handler, nextId, mounted,
                   cancelled, fired, burst, settledLog>>
    /\ UNCHANGED <<apiCallCount, searchResults, isSearching, searchHandler,
                   searchNextId, apiCalls, sinceReset, effectCause>>
    /\ UNCHANGED vars

\* App shows the other tab: the demo unmounts and both cleanups run.
UnmountDemo ==
    /\ Unmount
    /\ searchTimers' = SearchCleanup(searchTimers)
    /\ searchHandler' = 0
    /\ UNCHANGED <<apiCallCount, searchResults, isSearching, searchNextId,
                   apiCalls, sinceReset, effectCause>>
    /\ UNCHANGED vars

InitDemo ==
    /\ MountDemo
    /\ PaginationUnused

NextDemo ==
    \/ \E v \in Values : HandleSearchChange(v)
    \/ HandleReset
    \/ \E t \in timers : DebounceTimerFires(t)
    \/ \E t \in searchTimers : SearchTimerFires(t)
    \/ DemoTick
    \/ UnmountDemo

SpecDemo == InitDemo /\ [][NextDemo]_<<dvars, svars>>


\* ------------------------------------------------------------- claims
\* max(lo, min(p, hi)) on integers.
ClampInt(p, lo, hi) == IF p < lo THEN lo ELSE IF p > hi THEN hi ELSE p

\* Every value the latest render returned is an integer.
AllInt ==
    /\ IsInt(currentPage) /\ IsInt(totalPages) /\ IsInt(startIndex)
    /\ IsInt(endIndex) /\ IsInt(itemsOnCurrentPage)

\* 1 <= currentPage <= totalPages.
PageValid ==
    /\ IsInt(currentPage) /\ IsInt(totalPages)
    /\ 1 <= currentPage.v /\ currentPage.v <= totalPages.v

\* The page the hook holds once the queued updates are processed.
PageAfterPending == Reduce(currentPage, pending)

\* C1: once the operations made so far have completed (no update is left
\* queued), 1 <= currentPage <= totalPages, under constant props.
C1_CurrentPageWithinBounds == pending = <<>> => PageValid

\* C2: the first currentPage is max(1, min(initialPage, totalPages)).
C2_InitialPageClamped ==
    lastCall.op = "mount" =>
        /\ IsInt(totalPages)
        /\ currentPage = Num(ClampInt(lastCall.arg, 1, totalPages.v))

\* C3: totalPages = max(1, ceil(totalItems / itemsPerPage)): the least
\* n >= 1 with n * itemsPerPage >= totalItems, and 1 for no items.
C3_TotalPagesIsCeiling ==
    /\ IsInt(totalPages)
    /\ totalPages.v >= 1
    /\ totalPages.v * itemsPerPage >= totalItems
    /\ (totalPages.v > 1 => (totalPages.v - 1) * itemsPerPage < totalItems)
    /\ (totalItems = 0 => totalPages.v = 1)

\* A remainder gave an extra page, on a render after the props changed.
C3_Witness ==
    /\ lastCall.op = "props"
    /\ totalItems > itemsPerPage
    /\ totalItems % itemsPerPage # 0
    /\ totalPages = Num((totalItems \div itemsPerPage) + 1)

\* C4: with a valid currentPage, 0 <= startIndex <= endIndex <= totalItems
\* and endIndex - startIndex <= itemsPerPage; with no items, totalPages = 1
\* and startIndex = endIndex = itemsOnCurrentPage = 0.
C4_SliceWithinBoundsOnValidPage ==
    PageValid =>
        /\ IsInt(startIndex) /\ IsInt(endIndex) /\ IsInt(itemsOnCurrentPage)
        /\ 0 <= startIndex.v
        /\ startIndex.v <= endIndex.v
        /\ endIndex.v <= totalItems
        /\ endIndex.v - startIndex.v <= itemsPerPage
        /\ (totalItems = 0 =>
               /\ totalPages.v = 1
               /\ startIndex.v = 0
               /\ endIndex.v = 0
               /\ itemsOnCurrentPage.v = 0)

\* A valid last page, later than the first, that is not full, rendered
\* after a navigation call.
C4_Witness ==
    /\ lastCall.op = "render"
    /\ PageValid
    /\ currentPage.v > 1
    /\ currentPage = totalPages
    /\ endIndex.v - startIndex.v < itemsPerPage
    /\ endIndex.v = totalItems

\* C5: in every reachable state startIndex <= endIndex <= totalItems,
\* endIndex - startIndex <= itemsPerPage and itemsOnCurrentPage >= 0.
C5_SliceOrderedInEveryState ==
    /\ AllInt
    /\ startIndex.v <= endIndex.v
    /\ endIndex.v <= totalItems
    /\ endIndex.v - startIndex.v <= itemsPerPage
    /\ itemsOnCurrentPage.v >= 0

\* C6: setPage(p) can be called with every integer p and makes the page
\* max(1, min(p, totalPages)), the render that follows shows that page, and
\* a second setPage(p) leaves the page the first one left.
C6_SetPageClamps ==
    /\ [](\A p \in PageArgs : Len(pending) < MaxPending => ENABLED SetPage(p))
    /\ [][/\ \A p \in PageArgs :
                 SetPage(p) =>
                     /\ IsInt(totalPages)
                     /\ Reduce(currentPage', pending')
                            = Num(ClampInt(p, 1, totalPages.v))
                     /\ (lastCall = [op |-> "setPage", arg |-> p] =>
                            Reduce(currentPage', pending') = PageAfterPending)
          /\ (Rerender /\ lastCall.op = "setPage" =>
                 currentPage' = Num(ClampInt(lastCall.arg, 1, totalPages.v)))
         ]_vars

\* setPage was called twice from one render with a page beyond the last.
C6_Witness ==
    /\ lastCall.op = "setPage"
    /\ lastCall.arg > totalPages.v
    /\ totalPages.v > 1
    /\ Len(pending) = 2
    /\ pending[1] = pending[2]
    /\ pending[2] = [upd |-> "value", val |-> totalPages]

\* canNextPage = (currentPage < totalPages), canPrevPage = (currentPage > 1).
FlagsMatchPage ==
    /\ IsInt(currentPage) /\ IsInt(totalPages)
    /\ canNextPage = (currentPage.v < totalPages.v)
    /\ canPrevPage = (currentPage.v > 1)

\* C7: nextPage adds exactly 1 to the page when canNextPage and leaves it
\* otherwise, prevPage takes exactly 1 off when canPrevPage and leaves it
\* otherwise, and the two flags say currentPage < totalPages and
\* currentPage > 1 in every state.
C7_NextPrevStepByOne ==
    /\ []FlagsMatchPage
    /\ [][/\ NextPage =>
                 Reduce(currentPage', pending') =
                     IF currentPage.v < totalPages.v
                     THEN Num(PageAfterPending.v + 1)
                     ELSE PageAfterPending
          /\ PrevPage =>
                 Reduce(currentPage', pending') =
                     IF currentPage.v > 1
                     THEN Num(PageAfterPending.v - 1)
                     ELSE PageAfterPending
         ]_vars

\* nextPage was called on the last page of several and queued nothing.
C7_Witness ==
    /\ lastCall.op = "nextPage"
    /\ pending = <<>>
    /\ currentPage = totalPages
    /\ totalPages.v > 1

\* C8: on page totalPages, itemsOnCurrentPage is
\* totalItems - (totalPages - 1) * itemsPerPage, endIndex is totalItems and
\* canNextPage is false; 47 items by 10 make 5 pages, and page 5 is
\* [40, 47) with 7 items and no next page.
C8_IncompleteLastPage ==
    /\ (PageValid /\ currentPage = totalPages =>
           /\ IsInt(endIndex) /\ IsInt(itemsOnCurrentPage)
           /\ itemsOnCurrentPage.v
                  = totalItems - (totalPages.v - 1) * itemsPerPage
           /\ endIndex.v = totalItems
           /\ ~canNextPage)
    /\ (totalItems = 47 /\ itemsPerPage = 10 =>
           /\ totalPages = Num(5)
           /\ (currentPage = Num(5) =>
                  /\ startIndex = Num(40)
                  /\ endIndex = Num(47)
                  /\ itemsOnCurrentPage = Num(7)
                  /\ ~canNextPage))

\* Page 5 of the demo's 47 items, 10 per page.
C8_Witness ==
    /\ totalItems = DemoItems
    /\ itemsPerPage = DemoPerPage
    /\ currentPage = Num(5)
    /\ itemsOnCurrentPage = Num(7)
    /\ pending = <<>>

\* C9: a render with another totalItems or itemsPerPage leaves the page what
\* the queued updates make it (the page itself when none is queued), however
\* it compares with the new totalPages; and the page changes only when an
\* update queued by setPage, nextPage or prevPage is processed.
C9_PropsChangeKeepsPage ==
    [][/\ (totalItems' # totalItems \/ itemsPerPage' # itemsPerPage) =>
              currentPage' = PageAfterPending
       /\ (currentPage' # currentPage => pending # <<>>)
      ]_vars

\* After a change of props the page is beyond the new totalPages.
C9_Witness ==
    /\ lastCall.op = "props"
    /\ pending = <<>>
    /\ currentPage = Num(5)
    /\ totalPages = Num(1)

\* C10: for any integer props the derived values are those of the props
\* clamped to totalItems >= 0 and itemsPerPage >= 1.
C10_OutOfRangePropsClamped ==
    LET ti == IF totalItems < 0 THEN 0 ELSE totalItems
        ipp == IF itemsPerPage < 1 THEN 1 ELSE itemsPerPage
        si == StartIndexOf(currentPage, ipp)
        ei == EndIndexOf(si, ipp, ti)
    IN  /\ totalPages = TotalPagesOf(ti, ipp)
        /\ startIndex = si
        /\ endIndex = ei
        /\ itemsOnCurrentPage = ItemsOnPageOf(ei, si)

\* The last value of the current run of changes.
LastOfBurst == burst[Len(burst)]

\* This step assigns to debouncedValue.
Assigned == Len(settledLog') > Len(settledLog)

\* C11: in a run of changes, each made before the timer of the one before
\* expired, every assignment to debouncedValue happens at least delay ticks
\* after the last change, assigns the last value of the run, and is the only
\* assignment since the run began; debouncedValue changes in no other step.
C11_BurstSettlesOnLastValueOnce ==
    [][/\ Assigned =>
            /\ elapsed >= delay
            /\ debouncedValue' = LastOfBurst
            /\ settledLog' = <<LastOfBurst>>
       /\ debouncedValue' # debouncedValue => Assigned]_dvars

C11_Witness ==
    /\ lastEvent = "fire"
    /\ Len(burst) >= 3
    /\ burst[1] # burst[2]
    /\ burst[2] # LastOfBurst
    /\ delay > 0
    /\ settledLog = <<LastOfBurst>>
    /\ debouncedValue = LastOfBurst

\* The timer with this id is pending.
TimerPending(i) == \E t \in timers : t.id = i

\* C12: under fair timer firing, a timer made for a value leads to a state
\* where the instance is unmounted, or value or delay changed before the
\* timer fired (the timer was cleared), or the timer fired and debouncedValue
\* equals the input value.
C12_PendingTimerEventuallySettles ==
    \A i \in 1..MaxTimers :
        (mounted /\ TimerPending(i)) ~>
            \/ ~mounted
            \/ i \in cancelled
            \/ (i \in fired /\ ~TimerPending(i) /\ debouncedValue = value)

C12_Witness ==
    /\ mounted
    /\ lastEvent = "fire"
    /\ nextId = 3
    /\ cancelled = {1}
    /\ fired = {2}
    /\ delay > 0
    /\ burst[1] # value
    /\ debouncedValue = value

\* C13: an unmount clears the timer that is pending; once the instance is
\* unmounted no timer is pending, no callback runs and debouncedValue never
\* changes again.
C13_UnmountCancelsPendingTimer ==
    /\ [](~mounted => timers = {})
    /\ [][/\ (mounted /\ ~mounted') =>
               /\ timers' = {}
               /\ cancelled' = cancelled \cup {t.id : t \in timers}
               /\ debouncedValue' = debouncedValue
          /\ ~mounted =>
               /\ ~mounted'
               /\ debouncedValue' = debouncedValue
               /\ fired' = fired]_dvars

C13_Witness ==
    /\ ~mounted
    /\ lastEvent = "unmount"
    /\ cancelled = {1, 2}
    /\ fired = {}
    /\ nextId = 3
    /\ debouncedValue # value

\* C14: an instance has at most one pending timer, the one its live effect
\* made; when the effect runs again, the timer that was pending is cleared
\* and the new timer is the only one pending.
C14_AtMostOnePendingTimer ==
    /\ [](/\ Cardinality(timers) <= 1
          /\ \A t \in timers : t.id = handler)
    /\ [][(mounted' /\ handler' # handler) =>
              /\ {t.id : t \in timers} \subseteq cancelled'
              /\ {t.id : t \in timers'} = {handler'}]_dvars

C14_Witness ==
    /\ lastEvent = "invoke"
    /\ cancelled = {1, 2}
    /\ handler = 3
    /\ TimerPending(3)
    /\ Cardinality(timers) = 1

\* The ids of the timers in a queue.
Ids(q) == {t.id : t \in q}

\* C15: debouncedValue changes only in a step in which a pending timer that
\* was not cleared runs its callback, and it becomes the value that timer
\* carries; a timer carries, from the step that made it on, the input value
\* of the invocation that made it; a cleared timer never runs its callback.
C15_OnlyUnclearedCallbackAssigns ==
    /\ [](cancelled \cap fired = {})
    /\ [][/\ debouncedValue' # debouncedValue =>
               \E t \in timers :
                   /\ t.id \notin cancelled
                   /\ t.id \notin Ids(timers')
                   /\ fired' = fired \cup {t.id}
                   /\ debouncedValue' = t.value
          /\ \A t \in timers' :
               /\ t.id \notin Ids(timers) => t.value = value'
               /\ \A u \in timers : u.id = t.id => u.value = t.value
          /\ cancelled \subseteq cancelled'
          /\ Ids(timers') \cap cancelled' = {}
          /\ fired' # fired => Assigned]_dvars

C15_Witness ==
    /\ lastEvent = "fire"
    /\ cancelled = {1}
    /\ fired = {2}
    /\ debouncedValue = value
    /\ burst[1] # debouncedValue
    /\ mounted

\* C16: an invocation that changes value or delay leaves debouncedValue as
\* it is, runs no callback, clears the timer that was pending, if any, and
\* leaves exactly one pending timer, a new one carrying the new value and
\* the whole new delay.
C16_ChangeReschedules ==
    [][(mounted /\ mounted' /\ <<value', delay'>> # <<value, delay>>) =>
          /\ debouncedValue' = debouncedValue
          /\ fired' = fired
          /\ cancelled' = cancelled \cup Ids(timers)
          /\ handler' \notin Ids(timers) \cup cancelled \cup fired
          /\ timers' = {[id |-> handler', value |-> value',
                         remaining |-> delay']}]_dvars

C16_Witness ==
    /\ lastEvent = "invoke"
    /\ fired = {1}
    /\ cancelled = {2}
    /\ handler = 3
    /\ timers = {[id |-> 3, value |-> value, remaining |-> delay]}
    /\ delay > 0
    /\ burst = <<value, value>>
    /\ debouncedValue # value

\* C17: every invocation on a mounted instance, also one with the value
\* and delay of the invocation before, clears the pending timer and makes a
\* new one with the whole delay.
C17_EveryInvocationReschedules ==
    [][(mounted /\ lastEvent' = "invoke") =>
          /\ handler' # handler
          /\ Ids(timers) \subseteq cancelled'
          /\ timers' = {[id |-> handler', value |-> value',
                         remaining |-> delay']}]_dvars

\* C17, amended: an invocation with the value and delay of the invocation
\* before runs neither the cleanup nor the effect: the pending timer, the
\* time it has left and debouncedValue stay as they are.
C17_UnchangedInvocationKeepsTimer ==
    [][(mounted /\ lastEvent' = "invoke"
             /\ value' = value /\ delay' = delay) =>
          UNCHANGED <<timers, handler, nextId, cancelled, fired, elapsed,
                      debouncedValue>>]_dvars

C17_Witness ==
    /\ lastEvent = "invoke"
    /\ mounted
    /\ elapsed > 0
    /\ \E t \in timers :
           /\ t.id = handler
           /\ t.remaining > 0
           /\ t.remaining < delay

\* C18: an invocation that changes the value with delay 0 does not change
\* debouncedValue and runs no callback: it leaves the callback in the timer
\* queue, expired, and debouncedValue changes only in a later callback step.
C18_ZeroDelayIsAsynchronous ==
    [][(mounted /\ lastEvent' = "invoke" /\ value' # value /\ delay' = 0) =>
          /\ debouncedValue' = debouncedValue
          /\ fired' = fired
          /\ settledLog' \in {settledLog, <<>>}
          /\ timers' = {[id |-> handler', value |-> value',
                         remaining |-> 0]}]_dvars

C18_Witness ==
    /\ lastEvent = "invoke"
    /\ mounted
    /\ delay = 0
    /\ debouncedValue # value
    /\ fired = {}
    /\ timers = {[id |-> handler, value |-> value, remaining |-> 0]}

\* C19: while the instance is mounted and no timer is pending,
\* debouncedValue equals the latest input value; the two differ only while
\* the timer of the live effect is pending.
C19_IdleMeansSettled ==
    mounted =>
        /\ timers = {} => debouncedValue = value
        /\ debouncedValue # value => TimerPending(handler)

C19_Witness ==
    /\ mounted
    /\ timers = {}
    /\ lastEvent = "fire"
    /\ Cardinality(fired) = 2
    /\ cancelled # {}
    /\ debouncedValue = value
    /\ settledLog = <<value>>
    /\ burst[1] # value

\* C20: in every state the memoized totalPages, startIndex, endIndex and
\* itemsOnCurrentPage the hook returned equal what their formulas give when
\* computed afresh from the render's totalItems, itemsPerPage and
\* currentPage.
C20_MemoizedFieldsNeverStale ==
    LET si == StartIndexOf(currentPage, itemsPerPage)
        ei == EndIndexOf(si, itemsPerPage, totalItems)
    IN  /\ totalPages = TotalPagesOf(totalItems, itemsPerPage)
        /\ startIndex = si
        /\ endIndex = ei
        /\ itemsOnCurrentPage = ItemsOnPageOf(ei, si)

C20_Witness ==
    /\ lastCall.op = "props"
    /\ currentPage = Num(2)
    /\ totalItems = 3
    /\ itemsPerPage = 2
    /\ totalPages = Num(2)
    /\ startIndex = Num(2)
    /\ endIndex = Num(3)
    /\ itemsOnCurrentPage = Num(1)

\* Every queued update is one that nextPage or prevPage queued.
OnlyStepsPending ==
    /\ pending # <<>>
    /\ \A i \in 1..Len(pending) : pending[i].upd \in {"inc", "dec"}

\* C21: when the rendered page is within [1, totalPages] and nextPage and
\* prevPage were called on that render, any number of times, the page the
\* hook holds once these calls are processed is within [1, totalPages].
C21_RepeatedStepsStayInRange ==
    (PageValid /\ OnlyStepsPending) =>
        /\ IsInt(PageAfterPending)
        /\ 1 <= PageAfterPending.v
        /\ PageAfterPending.v <= totalPages.v

\* C22: from the first invocation on, while the timer made at mount is
\* pending, debouncedValue is the input value of the first invocation,
\* whatever the delay; when that timer fires, debouncedValue keeps its
\* value.
C22_InitialValueReturnedAtOnce ==
    /\ []((mounted /\ TimerPending(1)) =>
             /\ debouncedValue = value
             /\ debouncedValue = burst[1]
             /\ settledLog = <<>>)
    /\ [][(1 \in fired' /\ 1 \notin fired) =>
              /\ debouncedValue' = debouncedValue
              /\ debouncedValue' = value]_dvars

C22_Witness ==
    /\ lastEvent = "fire"
    /\ mounted
    /\ fired = {1}
    /\ cancelled = {}
    /\ nextId = 2
    /\ delay = MaxDelay
    /\ elapsed = MaxDelay
    /\ value # ""
    /\ debouncedValue = value

\* The number of counted API calls the firing of debounce timer i led to.
CallsOf(i) == Cardinality({k \in 1..Len(apiCalls) : apiCalls[k] = i})

\* The demo is mounted, shows a search term and has no timer pending.
SearchAtRest ==
    /\ mounted
    /\ value # ""
    /\ timers = {}
    /\ searchTimers = {}

\* C23: once the typing has stopped on a search term that is not empty and
\* every timer has run, the last keystroke's debounce timer has led to
\* exactly one counted API call.
C23_BurstCountsOneCall == SearchAtRest => CallsOf(handler) = 1

\* C23, amended: a keystroke counts no API call; every counted call comes
\* from a search timer made when a debounce timer fired, and no debounce
\* timer leads to two; the firing of a debounce timer starts a search or a
\* clearing exactly when it changes debouncedSearchTerm; once every timer
\* has run, the last keystroke's timer has led to one call when its firing
\* changed debouncedSearchTerm and to none when the typing ended on the
\* term that was settled already.
C23_BurstCountsAtMostOneCall ==
    /\ [](/\ \A i \in 1..MaxTimers : CallsOf(i) <= 1
          /\ \A k \in 1..Len(apiCalls) : apiCalls[k] \in fired
          /\ SearchAtRest =>
                CallsOf(handler) = IF effectCause = handler THEN 1 ELSE 0)
    /\ [][/\ (value' # value /\ ~sinceReset') =>
                UNCHANGED <<apiCallCount, apiCalls>>
          /\ apiCalls' # apiCalls =>
                /\ apiCallCount' = apiCallCount + 1
                /\ \E t \in searchTimers :
                       /\ t.kind = "search"
                       /\ t.term = debouncedValue
                       /\ apiCalls' = Append(apiCalls, t.cause)
          /\ \A i \in fired' \ fired :
                (effectCause' = i) = (debouncedValue' # debouncedValue)
         ]_<<dvars, svars>>

C23_Witness ==
    /\ SearchAtRest
    /\ burst = <<"", "a", "ab">>
    /\ cancelled = {1, 2}
    /\ CallsOf(handler) = 1
    /\ apiCallCount = 1
    /\ searchResults = MockResults("ab")
    /\ ~isSearching

\* C24: from handleReset until the user types again, searchResults is
\* empty, isSearching is false and apiCallCount is 0, whatever timers were
\* pending when Reset was pressed.
C24_ResetStaysClean ==
    (mounted /\ sinceReset) =>
        /\ searchResults = <<>>
        /\ isSearching = FALSE
        /\ apiCallCount = 0

====
